---- MODULE Spec2Model ----
(***************************************************************************)
(* Model of src/table/table.py (class Table, Python 2).                    *)
(*                                                                         *)
(* Values.  A cell of the input is a Python value.  Three types occur:     *)
(*   int      [type |-> "int",     n |-> the number, s |-> <<>>]           *)
(*   str      [type |-> "str",     n |-> 0, s |-> the bytes]               *)
(*   unicode  [type |-> "unicode", n |-> 0, s |-> the code points]         *)
(* Bytes and code points are numbers; a text is a sequence of code points, *)
(* a byte string a sequence of bytes.  Column and row indices of the       *)
(* Python code are 0-based; sequences here are 1-based.                    *)
(***************************************************************************)
EXTENDS Integers, Sequences, FiniteSets, TLC

VARIABLES
    input0,          \* history: the list the caller built, before Table(table)
    phase,           \* "new" | "ready" (constructed) | "failed" (__init__ raised)
    table,           \* the caller's list object; self._table is the same object
    headers,         \* self._headers
    column_widths,   \* self._column_widths
    out,             \* the lines (byte strings) printed by the most recent call
    err              \* the exception the most recent call raised, or "none"

vars == <<input0, phase, table, headers, column_widths, out, err>>

(* ------------------------------ bounds -------------------------------- *)

\* Most columns of a generated table.
MaxCols == 2
\* Most data rows of a generated table.
MaxRows == 2
\* Most bytes (code points) of a generated str (unicode) cell.
MaxLen == 3

(* ------------------------- program constants -------------------------- *)

\* Table.CORNER = '+'
CORNER == 43
\* Table.HORIZONTAL = '-'
HORIZONTAL == 45
\* Table.VERTICAL = '|'
VERTICAL == 124
\* extra_width = 2 in _get_column_widths
extra_width == 2
\* u' ', the padding character of _print_row
SPACE == 32
\* U+FFFD, what decode('utf-8', 'replace') puts for an invalid sequence
REPLACEMENT == 65533

IntCell(n) == [type |-> "int", n |-> n, s |-> <<>>]
StrCell(b) == [type |-> "str", n |-> 0, s |-> b]
UniCell(t) == [type |-> "unicode", n |-> 0, s |-> t]

(* ------------------------- library functions -------------------------- *)

RECURSIVE Digits(_)
Digits(n) ==
    IF n < 10 THEN <<48 + n>> ELSE Digits(n \div 10) \o <<48 + (n % 10)>>

\* str(mixed) of an int: its decimal digits, '-' first when negative.
str(mixed) ==
    IF mixed.n < 0 THEN <<45>> \o Digits(0 - mixed.n) ELSE Digits(mixed.n)

IsCont(b) == b >= 128 /\ b <= 191

\* bytes.decode('utf-8'): [ok, text]; ok = FALSE is UnicodeDecodeError.
\* One-, two- and three-byte forms (the Basic Multilingual Plane); the
\* generated byte strings hold no four-byte lead (0xF0..0xF4).
RECURSIVE Utf8Decode(_)
Utf8Decode(b) ==
    IF b = <<>> THEN [ok |-> TRUE, text |-> <<>>]
    ELSE LET b1 == b[1]
             n == IF b1 < 128 THEN 1
                  ELSE IF b1 >= 194 /\ b1 <= 223 THEN 2
                  ELSE IF b1 >= 224 /\ b1 <= 239 THEN 3
                  ELSE 0
             wellformed ==
                 /\ n > 0
                 /\ Len(b) >= n
                 /\ \A k \in 2..n : IsCont(b[k])
                 /\ (b1 = 224 => b[2] >= 160)
             cp == IF n = 1 THEN b1
                   ELSE IF n = 2 THEN (b1 - 192) * 64 + (b[2] - 128)
                   ELSE (b1 - 224) * 4096 + (b[2] - 128) * 64 + (b[3] - 128)
         IN  IF ~wellformed THEN [ok |-> FALSE, text |-> <<>>]
             ELSE LET rest == Utf8Decode(SubSeq(b, n + 1, Len(b)))
                  IN  IF rest.ok
                      THEN [ok |-> TRUE, text |-> <<cp>> \o rest.text]
                      ELSE rest

\* bytes.decode('iso-8859-1'): every byte is the code point of its value, so
\* the codec never fails.
Latin1Decode(b) == [ok |-> TRUE, text |-> [i \in 1..Len(b) |-> b[i]]]

\* bytes.decode('utf-8', 'replace'): an invalid byte becomes U+FFFD.
RECURSIVE Utf8DecodeReplace(_)
Utf8DecodeReplace(b) ==
    IF b = <<>> THEN <<>>
    ELSE LET b1 == b[1]
             n == IF b1 < 128 THEN 1
                  ELSE IF b1 >= 194 /\ b1 <= 223 THEN 2
                  ELSE IF b1 >= 224 /\ b1 <= 239 THEN 3
                  ELSE 0
             wellformed ==
                 /\ n > 0
                 /\ Len(b) >= n
                 /\ \A k \in 2..n : IsCont(b[k])
                 /\ (b1 = 224 => b[2] >= 160)
         IN  IF wellformed
             THEN Utf8Decode(SubSeq(b, 1, n)).text
                      \o Utf8DecodeReplace(SubSeq(b, n + 1, Len(b)))
             ELSE <<REPLACEMENT>> \o Utf8DecodeReplace(Tail(b))

\* One code point's UTF-8 bytes.
EncodeChar(c) ==
    IF c < 128 THEN <<c>>
    ELSE IF c < 2048 THEN <<192 + (c \div 64), 128 + (c % 64)>>
    ELSE <<224 + (c \div 4096), 128 + ((c \div 64) % 64), 128 + (c % 64)>>

\* unicode.encode('utf-8')
RECURSIVE Utf8Encode(_)
Utf8Encode(text) ==
    IF text = <<>> THEN <<>>
    ELSE EncodeChar(Head(text)) \o Utf8Encode(Tail(text))

\* unicodedata.east_asian_width(c), for the code points the generated cells
\* and the drawing characters produce (Unicode's EastAsianWidth.txt).
east_asian_width(c) ==
    IF c >= 32 /\ c <= 126 THEN "Na"
    ELSE IF c >= 19968 /\ c <= 40959 THEN "W"
    ELSE IF c >= 65281 /\ c <= 65376 THEN "F"
    ELSE IF c >= 65377 /\ c <= 65500 THEN "H"
    ELSE IF c \in {177, 230, 233, 65533} THEN "A"
    ELSE "N"

\* `category in "WF"`: Python's substring test on the string "WF".
InWF(category) == category \in {"", "W", "F", "WF"}

Reverse(s) == [i \in 1..Len(s) |-> s[Len(s) + 1 - i]]

\* s * n for a one-character string s: empty when n <= 0.
Repeat(c, n) == [i \in 1..n |-> c]

RECURSIVE SeqLess(_, _)
SeqLess(a, b) ==
    IF b = <<>> THEN FALSE
    ELSE IF a = <<>> THEN TRUE
    ELSE IF a[1] # b[1] THEN a[1] < b[1]
    ELSE SeqLess(Tail(a), Tail(b))

\* Python 2's a < b on raw values: numbers by value, a number before any
\* string, byte strings bytewise.  (str against unicode is not modelled: no
\* generated table with two data rows holds a unicode cell.)
CellLess(a, b) ==
    CASE a.type = "int" /\ b.type = "int" -> a.n < b.n
      [] a.type = "int" /\ b.type = "str" -> TRUE
      [] a.type = "str" /\ b.type = "int" -> FALSE
      [] a.type = "str" /\ b.type = "str" -> SeqLess(a.s, b.s)
      [] a.type = "unicode" /\ b.type = "unicode" -> SeqLess(a.s, b.s)

\* One step of the stable sort: x goes after every element not greater.
RECURSIVE Insert(_, _, _)
Insert(l, x, k) ==
    IF l = <<>> THEN <<x>>
    ELSE IF CellLess(x[k], Head(l)[k]) THEN <<x>> \o l
    ELSE <<Head(l)>> \o Insert(Tail(l), x, k)

RECURSIVE StableSort(_, _)
StableSort(l, k) ==
    IF l = <<>> THEN <<>>
    ELSE Insert(StableSort(SubSeq(l, 1, Len(l) - 1), k), l[Len(l)], k)

\* Faulty variant of list_sort: a descending sort made by reversing the
\* ascending result, which turns rows of equal keys around.
list_sort_reversed_after(l, k, reverse) ==
    IF reverse THEN Reverse(StableSort(l, k)) ELSE StableSort(l, k)

\* Faulty variant of list_sort: only the key column is sorted, the other
\* cells stay where they were.
list_sort_column_only(l, k, reverse) ==
    LET sorted == IF reverse THEN Reverse(StableSort(Reverse(l), k))
                  ELSE StableSort(l, k)
    IN  [r \in 1..Len(l) |-> [l[r] EXCEPT ![k] = sorted[r][k]]]

\* list.sort(key=operator.itemgetter(k - 1), reverse=reverse): CPython keeps
\* a reverse sort stable by reversing the list, sorting it stably and
\* reversing the result.
list_sort(l, k, reverse) ==
    IF reverse THEN Reverse(StableSort(Reverse(l), k)) ELSE StableSort(l, k)

\* max(iterable) of a non-empty collection of numbers.
max(S) == CHOOSE m \in S : \A x \in S : x <= m

\* Faulty variant of pop0: the header row stays in the list.
pop0_keeps_header(l) == l

\* list.pop(0): what is left of the list.
pop0(l) == Tail(l)

(* --------------------------- class Table ------------------------------ *)

\* Faulty variant of all_to_unicode: the ISO-8859-1 attempt is missing.
all_to_unicode_no_latin1(mixed) ==
    IF mixed.type = "unicode" THEN mixed.s
    ELSE LET bytes == IF mixed.type # "str" THEN str(mixed) ELSE mixed.s
             utf8 == Utf8Decode(bytes)
         IN  IF utf8.ok THEN utf8.text ELSE Utf8DecodeReplace(bytes)

all_to_unicode(mixed) ==
    IF mixed.type = "unicode" THEN mixed.s
    ELSE LET bytes == IF mixed.type # "str" THEN str(mixed) ELSE mixed.s
             utf8 == Utf8Decode(bytes)
             latin1 == Latin1Decode(bytes)
         IN  IF utf8.ok THEN utf8.text
             ELSE IF latin1.ok THEN latin1.text
             ELSE Utf8DecodeReplace(bytes)

\* Faulty variant of strip_nonprintable: DEL (127) is not stripped.
strip_nonprintable_keeps_del(text) ==
    SelectSeq(text, LAMBDA char : char \notin 0..31)

strip_nonprintable(text) ==
    LET non == (0..31) \cup {127}
    IN  SelectSeq(text, LAMBDA char : char \notin non)

RECURSIVE SumWidths(_)
SumWidths(text) ==
    IF text = <<>> THEN 0
    ELSE 1 + (IF InWF(east_asian_width(Head(text))) THEN 1 ELSE 0)
           + SumWidths(Tail(text))

width_when_printed(mixed) ==
    SumWidths(strip_nonprintable(all_to_unicode(mixed)))

\* The loop of _get_column_widths from column i on: [err, widths].  max() of
\* no rows raises ValueError, row[i] of a short row raises IndexError.
RECURSIVE column_widths_from(_, _, _)
column_widths_from(i, hs, rows) ==
    IF i > Len(hs) THEN [err |-> "none", widths |-> <<>>]
    ELSE IF rows = <<>> THEN [err |-> "ValueError", widths |-> <<>>]
    ELSE IF \E r \in 1..Len(rows) : Len(rows[r]) < i
         THEN [err |-> "IndexError", widths |-> <<>>]
    ELSE LET column_width ==
                 max({width_when_printed(rows[r][i]) : r \in 1..Len(rows)})
             header_width == width_when_printed(hs[i])
             widest == IF column_width < header_width
                       THEN header_width ELSE column_width
             rest == column_widths_from(i + 1, hs, rows)
         IN  IF rest.err # "none" THEN rest
             ELSE [err |-> "none",
                   widths |-> <<widest + extra_width>> \o rest.widths]

\* Faulty variant of get_column_widths: the header is not measured.
get_column_widths_no_header(hs, rows) ==
    IF hs = <<>> THEN [err |-> "none", widths |-> <<>>]
    ELSE IF rows = <<>> THEN [err |-> "ValueError", widths |-> <<>>]
    ELSE IF \E r \in 1..Len(rows) : Len(rows[r]) < Len(hs)
         THEN [err |-> "IndexError", widths |-> <<>>]
    ELSE [err |-> "none",
          widths |-> [i \in 1..Len(hs) |->
              max({width_when_printed(rows[r][i]) : r \in 1..Len(rows)})
                  + extra_width]]

get_column_widths(hs, rows) == column_widths_from(1, hs, rows)

\* Faulty variant of print_element: pads by the number of characters, not by
\* the width when printed.
print_element_by_length(max_width, element) ==
    LET text == <<SPACE>> \o strip_nonprintable(all_to_unicode(element))
                    \o <<SPACE>>
    IN  text \o Repeat(SPACE, max_width - Len(text)) \o <<VERTICAL>>

\* The body of _print_row's loop: what one (max_width, element) pair adds.
print_element(max_width, element) ==
    LET text == <<SPACE>> \o strip_nonprintable(all_to_unicode(element))
                    \o <<SPACE>>
        element_width == width_when_printed(UniCell(text))
    IN  text \o Repeat(SPACE, max_width - element_width) \o <<VERTICAL>>

\* zip(widths, row) stops at the shorter of the two.
RECURSIVE print_zip(_, _)
print_zip(widths, row) ==
    IF widths = <<>> \/ row = <<>> THEN <<>>
    ELSE print_element(Head(widths), Head(row))
             \o print_zip(Tail(widths), Tail(row))

\* _print_row: the bytes of the line it prints.
print_row(widths, row) == Utf8Encode(<<VERTICAL>> \o print_zip(widths, row))

\* CORNER.join([x * HORIZONTAL for x in widths])
RECURSIVE join_bars(_)
join_bars(widths) ==
    IF widths = <<>> THEN <<>>
    ELSE IF Len(widths) = 1 THEN Repeat(HORIZONTAL, widths[1])
    ELSE Repeat(HORIZONTAL, widths[1]) \o <<CORNER>> \o join_bars(Tail(widths))

limiter(widths) == <<CORNER>> \o join_bars(widths) \o <<CORNER>>

\* Faulty variant of draw_lines: the closing border is missing.
draw_lines_no_closing_border(hs, rows, widths) ==
    <<limiter(widths), print_row(widths, hs), limiter(widths)>>
        \o [r \in 1..Len(rows) |-> print_row(widths, rows[r])]

\* Everything draw() prints, in order.
draw_lines(hs, rows, widths) ==
    <<limiter(widths), print_row(widths, hs), limiter(widths)>>
        \o [r \in 1..Len(rows) |-> print_row(widths, rows[r])]
        \o <<limiter(widths)>>

(* ------------------------------ inputs -------------------------------- *)

\* Cells of the generated tables: an ID column of numbers whose order as
\* numbers (2 < 123) is not their order as text ("123" < "2"), and a column
\* of byte strings, one of two double-width characters (UTF-8 of U+6C49
\* twice), one of a tab and 'A'.
IntCells == {IntCell(2), IntCell(123)}
StrCells == {StrCell(<<230, 177, 137, 230, 177, 137>>), StrCell(<<9, 65>>)}
DataCellsAt(i) == IF i % 2 = 1 THEN IntCells ELSE StrCells
\* A cell wider than any other, for the end of a row that is too long.
ExtraCell == StrCell(<<230, 177, 137, 230, 177, 137, 230, 177, 137>>)

\* Header rows: 'ID' and u'汉Ａ\t' (a Wide, a Fullwidth and a
\* control character) in turn, starting with either.
HeaderCellAt(i, flip) ==
    IF (i % 2 = 1) = flip THEN StrCell(<<73, 68>>)
    ELSE UniCell(<<27721, 65313, 9>>)
HeaderRows(n) == {[i \in 1..n |-> HeaderCellAt(i, flip)] : flip \in BOOLEAN}

RECURSIVE DataRows(_)
DataRows(n) ==
    IF n = 0 THEN {<<>>}
    ELSE {Append(r, c) : r \in DataRows(n - 1), c \in DataCellsAt(n)}

RECURSIVE Lists(_, _)
Lists(n, S) ==
    IF n = 0 THEN {<<>>} ELSE {Append(l, x) : l \in Lists(n - 1, S), x \in S}

\* Header and data rows all of one length.
UniformTables ==
    UNION {
        {<<h>> \o rows : h \in HeaderRows(ncols),
                         rows \in Lists(nrows, DataRows(ncols))} :
        ncols \in 0..MaxCols, nrows \in 0..MaxRows}

\* Rows one cell shorter or one cell longer than a header of n cells.
RaggedRows(n) ==
    (IF n = 0 THEN {} ELSE DataRows(n - 1))
        \cup {Append(row, ExtraCell) : row \in DataRows(n)}

\* A uniform table with one data row replaced by a shorter or a longer one.
RaggedTables ==
    UNION {
        {[t EXCEPT ![r] = row] : r \in 2..Len(t), row \in RaggedRows(Len(t[1]))} :
        t \in UniformTables}

\* Byte strings and texts over small alphabets: 'A', DEL, the UTF-8 bytes of
\* U+00E9 (C3 A9) and of U+6C69 (E6 B1 A9), and FF, which UTF-8 never holds;
\* tab, 'A', DEL, a Wide, a Fullwidth, a Halfwidth and the replacement
\* character.
ByteAlphabet == {65, 127, 195, 169, 230, 177, 255}
CharAlphabet == {9, 65, 127, 27721, 65313, 65393, 65533}

UpTo(n, S) == UNION {Lists(k, S) : k \in 0..n}

RichCells ==
    {StrCell(b) : b \in UpTo(MaxLen, ByteAlphabet)}
        \cup {UniCell(t) : t \in UpTo(MaxLen, CharAlphabet)}
        \cup {IntCell(0 - 45), IntCell(0), IntCell(1080)}

\* One column, one data row: any cell under 'ID', or as the header over 2.
RichTables ==
    {<<<<StrCell(<<73, 68>>)>>, <<c>>>> : c \in RichCells}
        \cup {<<<<c>>, <<IntCell(2)>>>> : c \in RichCells}

Inputs == UniformTables \cup RaggedTables \cup RichTables \cup {<<>>}

(* ------------------------------ actions ------------------------------- *)

Init ==
    /\ input0 \in Inputs
    /\ phase = "new"
    /\ table = input0
    /\ headers = <<>>
    /\ column_widths = <<>>
    /\ out = <<>>
    /\ err = "none"

\* Table(table): __init__.  table.pop(0) on an empty list raises IndexError;
\* an exception of _get_column_widths leaves the caller's list popped.
Construct ==
    /\ phase = "new"
    /\ out' = <<>>
    /\ UNCHANGED input0
    /\ IF table = <<>>
       THEN /\ phase' = "failed"
            /\ err' = "IndexError"
            /\ UNCHANGED <<table, headers, column_widths>>
       ELSE LET got == get_column_widths(Head(table), pop0(table))
            IN  /\ headers' = Head(table)
                /\ table' = pop0(table)
                /\ err' = got.err
                /\ column_widths' = got.widths
                /\ phase' = IF got.err = "none" THEN "ready" ELSE "failed"

draw ==
    /\ phase = "ready"
    /\ out' = draw_lines(headers, table, column_widths)
    /\ err' = "none"
    /\ UNCHANGED <<input0, phase, table, headers, column_widths>>

\* itemgetter(sort_column) raises IndexError on a row without that column,
\* before the list is touched.
sort_by_column(sort_column, reverse) ==
    /\ phase = "ready"
    /\ out' = <<>>
    /\ IF \E r \in 1..Len(table) : Len(table[r]) <= sort_column
       THEN /\ err' = "IndexError"
            /\ UNCHANGED table
       ELSE /\ err' = "none"
            /\ table' = list_sort(table, sort_column + 1, reverse)
    /\ UNCHANGED <<input0, phase, headers, column_widths>>

Next ==
    \/ Construct
    \/ draw
    \/ \E sort_column \in 0..MaxCols, reverse \in BOOLEAN :
           sort_by_column(sort_column, reverse)

Spec == Init /\ [][Next]_vars

(* ---------------------- vocabulary of the properties ------------------ *)

\* Every data row of the input is as long as its header.
Uniform(inp) ==
    inp # <<>> /\ \A r \in 2..Len(inp) : Len(inp[r]) = Len(inp[1])

Constructed == phase = "ready"
Drawn == phase = "ready" /\ out # <<>>

Range(f) == {f[i] : i \in DOMAIN f}

Controls == (0..31) \cup {127}

\* The text a cell shows: normalized, control characters removed.
Shown(cell) == strip_nonprintable(all_to_unicode(cell))

RECURSIVE Split(_, _)
Split(t, sep) ==
    IF t = <<>> THEN << <<>> >>
    ELSE LET rest == Split(Tail(t), sep)
         IN  IF Head(t) = sep THEN << <<>> >> \o rest
             ELSE << <<Head(t)>> \o rest[1] >> \o Tail(rest)

\* A printed line read back: its text, and the pieces between the bars.
TextOf(line) == Utf8Decode(line).text
Pieces(line) == Split(TextOf(line), VERTICAL)
Segments(line) == SubSeq(Pieces(line), 2, Len(Pieces(line)) - 1)
Unpadded(t) == SelectSeq(t, LAMBDA c : c # SPACE)

\* The display width of a printed line.
LineWidth(line) == SumWidths(TextOf(line))

IsBorder(line) ==
    /\ Len(line) >= 2
    /\ line[1] = CORNER /\ line[Len(line)] = CORNER
    /\ Range(line) \subseteq {CORNER, HORIZONTAL}

\* line is the content line of row: bars at both ends, one segment per cell,
\* each holding the cell's shown text between spaces.
IsContentOf(line, row) ==
    /\ Utf8Decode(line).ok
    /\ Len(Pieces(line)) = Len(row) + 2
    /\ Pieces(line)[1] = <<>> /\ Pieces(line)[Len(row) + 2] = <<>>
    /\ \A i \in 1..Len(row) :
           LET seg == Segments(line)[i]
           IN  /\ Len(seg) >= 2
               /\ seg[1] = SPACE
               /\ Unpadded(seg) = Shown(row[i])

\* a and b hold the same rows, each as often.
IsPermutation(a, b) ==
    /\ Len(a) = Len(b)
    /\ \A x \in Range(a) \cup Range(b) :
           Cardinality({i \in DOMAIN a : a[i] = x})
               = Cardinality({i \in DOMAIN b : b[i] = x})

\* new is old stably sorted by column k (1-based): some reordering p of the
\* positions gives new, the keys run in order, and rows of equal keys keep
\* the order they had in old.
StablySortedBy(old, new, k, reverse) ==
    /\ Len(new) = Len(old)
    /\ \E p \in Permutations(1..Len(old)) :
           /\ \A i \in 1..Len(old) : new[i] = old[p[i]]
           /\ \A i, j \in 1..Len(old) :
                  i < j =>
                      LET a == new[i][k]
                          b == new[j][k]
                      IN  /\ IF reverse THEN ~CellLess(a, b)
                             ELSE ~CellLess(b, a)
                          /\ (~CellLess(a, b) /\ ~CellLess(b, a))
                                 => p[i] < p[j]

\* What one character adds to the display width.
Weight(c) ==
    IF c \in Controls THEN 0
    ELSE IF east_asian_width(c) \in {"W", "F"} THEN 2
    ELSE 1

RECURSIVE TotalWeight(_)
TotalWeight(text) ==
    IF text = <<>> THEN 0 ELSE Weight(Head(text)) + TotalWeight(Tail(text))

\* The cells of the input, header cells included.
CellsOf(inp) == UNION {Range(inp[r]) : r \in 1..Len(inp)}

\* A str cell whose bytes are not valid UTF-8.
Malformed(cell) == cell.type = "str" /\ ~Utf8Decode(cell.s).ok

(* ------------------------------- claims ------------------------------- *)

\* C1: for a table with at least one data row and every row as long as the
\* header, construction succeeds with exactly one width per header column,
\* and each width is the largest display width among the header cell and the
\* data cells of that column, plus 2.
C1_ColumnWidths ==
    (phase # "new" /\ Len(input0) >= 2 /\ Uniform(input0)) =>
        /\ phase = "ready"
        /\ Len(column_widths) = Len(input0[1])
        /\ \A i \in 1..Len(input0[1]) :
               LET ws == {width_when_printed(input0[r][i]) :
                             r \in 1..Len(input0)}
               IN  /\ column_widths[i] - 2 \in ws
                   /\ \A w \in ws : w <= column_widths[i] - 2

\* A constructed two-column table in which the header is strictly the widest
\* cell of one column and strictly narrower than a data cell of another.
C1_Witness ==
    /\ Constructed /\ Uniform(input0) /\ Len(input0) >= 3
    /\ \E i \in 1..Len(headers) :
           \A r \in 1..Len(table) :
               width_when_printed(table[r][i]) < width_when_printed(headers[i])
    /\ \E i \in 1..Len(headers) :
           \E r \in 1..Len(table) :
               width_when_printed(table[r][i]) > width_when_printed(headers[i])

\* C2 (as claimed): constructing a table of a header row and no data rows
\* succeeds, every width being the header's display width plus 2.
C2_HeaderOnly ==
    (phase # "new" /\ Len(input0) = 1) =>
        /\ phase = "ready" /\ err = "none"
        /\ Len(column_widths) = Len(input0[1])
        /\ \A i \in 1..Len(input0[1]) :
               column_widths[i] = width_when_printed(input0[1][i]) + 2

\* The order of the lines of a drawing: a border, the header's content line,
\* the border, the content line of each data row in the current order of the
\* rows, the border; the three borders are the same line.
C3_Order ==
    /\ IsBorder(out[1])
    /\ out[3] = out[1] /\ out[Len(out)] = out[1]
    /\ IsContentOf(out[2], headers)
    /\ \A r \in 1..Len(table) : IsContentOf(out[3 + r], table[r])

\* C3 (as claimed): for a table whose rows all have the header's length, draw
\* prints Len(rows) + 3 lines, in that order.
C3_DrawOrder ==
    (Drawn /\ Uniform(input0)) =>
        (Len(out) = Len(table) + 3 /\ C3_Order)

\* C3 (amended): draw prints Len(rows) + 4 lines, in that order: the three
\* borders, the header's line and one line for each data row.
C3_DrawOrderOfAllLines ==
    (Drawn /\ Uniform(input0)) =>
        (Len(out) = Len(table) + 4 /\ C3_Order)

\* A drawing of two different rows in an order a sort has left.
C3_Witness ==
    /\ Drawn /\ Uniform(input0)
    /\ Len(table) = 2 /\ Len(headers) = 2
    /\ table # Tail(input0)
    /\ out[4] # out[5]

\* C4 (as claimed): for every table whose rows all have the header's length,
\* all lines draw prints have one display width, the segment of column i has
\* display width column_widths[i], and no padding count is negative.
C4_EqualWidths ==
    (Drawn /\ Uniform(input0)) =>
        /\ \A k \in 1..Len(out) : LineWidth(out[k]) = LineWidth(out[1])
        /\ \A k \in {2} \cup (4..(Len(out) - 1)) :
               /\ Len(Segments(out[k])) = Len(column_widths)
               /\ \A i \in 1..Len(column_widths) :
                      SumWidths(Segments(out[k])[i]) = column_widths[i]
        /\ \A row \in {headers} \cup Range(table) :
               \A i \in 1..Len(column_widths) :
                   column_widths[i] - (TotalWeight(Shown(row[i])) + 2) >= 0

\* C4 (amended): the same, for tables of at least one column.
C4_EqualWidthsWithColumns ==
    Len(headers) >= 1 => C4_EqualWidths

\* A drawing in which a content line has more bytes than the border, because
\* of its double-width characters, and yet the same display width.
C4_Witness ==
    /\ Drawn /\ Uniform(input0) /\ Len(headers) >= 1
    /\ \E k \in 1..Len(out) :
           /\ Len(out[k]) > Len(out[1])
           /\ \E c \in Range(TextOf(out[k])) : Weight(c) = 2

\* C5: a step of sort_by_column(sort_column, reverse) that does not raise
\* leaves the rows stably sorted by the raw value in that column, ascending,
\* or descending when reverse: rows of equal keys keep their order.
C5_StableSort ==
    [][\A c \in 0..MaxCols, reverse \in BOOLEAN :
           (sort_by_column(c, reverse) /\ err' = "none")
               => StablySortedBy(table, table', c + 1, reverse)]_vars

\* Two different rows with equal keys in column 0, in an order that a sort
\* (by another column) has changed: a descending sort by column 0 from here
\* must keep them as they are.
C5_Witness ==
    /\ Constructed /\ out = <<>> /\ err = "none"
    /\ Len(table) = 2 /\ Len(headers) = 2
    /\ table[1][1] = table[2][1]
    /\ table[1] # table[2]
    /\ table # Tail(input0)

\* C6: once constructed, the header and the column widths are those of the
\* construction and the rows are the data rows of the input, reordered at
\* most.
C6_Frame ==
    Constructed =>
        /\ headers = Head(input0)
        /\ column_widths
               = get_column_widths(Head(input0), Tail(input0)).widths
        /\ IsPermutation(table, Tail(input0))

\* Rows that a sort has reordered, drawn.
C6_Witness ==
    /\ Drawn
    /\ Len(table) = 2
    /\ table # Tail(input0)

\* C7 (as claimed): when a data row's length differs from the header's,
\* construction (or draw) raises.
C7_ShapeMismatch ==
    (phase # "new" /\ input0 # <<>> /\ ~Uniform(input0)) =>
        (phase = "failed" /\ err # "none")

\* C8 (as claimed): a cell of bytes that are not valid UTF-8 is normalized to
\* a text that holds a replacement character, and so does the drawn output.
C8_ReplacementCharacter ==
    Drawn =>
        \A r \in 1..Len(table) : \A i \in 1..Len(column_widths) :
            Malformed(table[r][i]) =>
                /\ REPLACEMENT \in Range(all_to_unicode(table[r][i]))
                /\ REPLACEMENT \in Range(TextOf(out[3 + r]))

\* C8 (amended): such a cell is normalized to the ISO-8859-1 reading of its
\* bytes, one character per byte, which holds no replacement character; the
\* drawn line shows that text and no replacement character.
C8_Latin1Fallback ==
    Drawn =>
        /\ err = "none"
        /\ \A r \in 1..Len(table) : \A i \in 1..Len(column_widths) :
               Malformed(table[r][i]) =>
                /\ all_to_unicode(table[r][i])
                       = [k \in 1..Len(table[r][i].s) |-> table[r][i].s[k]]
                /\ REPLACEMENT \notin Range(all_to_unicode(table[r][i]))
                /\ Unpadded(Segments(out[3 + r])[i])
                       = SelectSeq(table[r][i].s, LAMBDA b : b \notin Controls)
                /\ REPLACEMENT \notin Range(TextOf(out[3 + r]))

\* A drawn row whose cell is malformed UTF-8 and shows some character.
C8_Witness ==
    /\ Drawn
    /\ \E r \in 1..Len(table) :
           /\ table[r] # <<>>
           /\ Malformed(table[r][1])
           /\ Shown(table[r][1]) # <<>>

\* C9 (as claimed): construction leaves the caller's list as long as it was
\* and with the same first row.
C9_InputUntouched ==
    (phase # "new" /\ input0 # <<>>) =>
        /\ Len(table) = Len(input0)
        /\ table[1] = input0[1]

\* C9 (amended): construction removes the first row of the caller's list,
\* which becomes the header, and leaves the other rows as they were; after
\* it only a sort_by_column step changes the list.
C9_HeaderPopped ==
    [][/\ (phase = "new" /\ table # <<>>)
              => (table' = Tail(table) /\ headers' = Head(table))
       /\ (phase # "new" /\ table' # table)
              => \E c \in 0..MaxCols, reverse \in BOOLEAN :
                     sort_by_column(c, reverse)]_vars

\* A constructed table: the caller's list holds the data rows only.
C9_Witness ==
    /\ Constructed
    /\ Len(input0) >= 2
    /\ table = Tail(input0)
    /\ headers = Head(input0)

\* C10: a control character (0..31, 127) of a cell adds nothing to the
\* display width and is in no line draw prints; any other character adds 2
\* when its East Asian Width is W or F, and 1 otherwise.
C10_ControlCharacters ==
    /\ \A cell \in CellsOf(input0) :
           LET text == all_to_unicode(cell)
           IN  /\ width_when_printed(cell) = TotalWeight(text)
               /\ (\A c \in Range(text) : Weight(c) = 2)
                      => width_when_printed(cell) = 2 * Len(text)
               /\ (\A c \in Range(text) : Weight(c) = 1)
                      => width_when_printed(cell) = Len(text)
    /\ \A k \in 1..Len(out) :
           /\ Range(out[k]) \cap Controls = {}
           /\ Range(TextOf(out[k])) \cap Controls = {}

\* A drawn table with a cell that holds DEL, a cell that holds a character
\* below 32 and a cell that holds a double-width character.
C10_Witness ==
    /\ Drawn
    /\ \E cell \in CellsOf(input0) : 127 \in Range(all_to_unicode(cell))
    /\ \E cell \in CellsOf(input0) : 9 \in Range(all_to_unicode(cell))
    /\ \E cell \in CellsOf(input0) :
           \E c \in Range(all_to_unicode(cell)) : Weight(c) = 2

====
